---- MODULE Spec2Model ----
(***************************************************************************)
(* Kokkos::Experimental::Impl::shift_right_impl                            *)
(* (bundled/kokkos-3.7.00/algorithms/src/std_algorithms/impl/              *)
(*  Kokkos_ShiftRight.hpp).                                                *)
(*                                                                         *)
(* One call of shift_right_impl on a range [first, last) of an underlying  *)
(* storage, on an execution space instance `ex`.  The calling thread walks *)
(* through the statements of the function; the work items of the two       *)
(* parallel_for launches are run by the execution context, one action per  *)
(* work item, in any order the context allows.                             *)
(***************************************************************************)
EXTENDS Integers, Sequences, FiniteSets

VARIABLES
    storage,    \* the underlying sequence: position -> element
    orig,       \* storage as it was when the call was entered
    first,      \* iterator first, as a position of the storage
    last,       \* iterator last, as a position of the storage
    n,          \* the shift amount (signed difference_type)
    sequenced,  \* does `ex` run successive launches one after the other?
    pc,         \* the statement the calling thread is at
    num_elements_to_move,   \* local of line 105
    tmp_view,   \* the scratch view of line 111
    pend1,      \* work items of the step-1 launch not yet run
    done1,      \* work items of the step-1 launch that have run
    pend2,      \* work items of the step-2 launch not yet run
    done2,      \* work items of the step-2 launch that have run
    launches,   \* number of parallel_for calls issued by the call
    fences,     \* number of ex.fence calls issued by the call
    allocs,     \* number of views the call has constructed
    written,    \* positions of the storage assigned to by work items
    result,     \* the iterator returned
    calls,      \* number of calls entered so far
    heap        \* the scratch views that are currently allocated

vars == <<storage, orig, first, last, n, sequenced, pc, num_elements_to_move,
          tmp_view, pend1, done1, pend2, done2, launches, fences, allocs,
          written, result, calls, heap>>

---------------------------------------------------------------------------
(* Bounds *)

StorageLen == 3

MaxCalls == 2

Positions == 0..(StorageLen - 1)

\* n ranges from a negative amount to amounts beyond the longest range
ShiftAmounts == (0 - 1)..(StorageLen + 2)

---------------------------------------------------------------------------
(* Values *)

\* the state of an element that has been moved from, or of a scratch cell
\* nothing has been moved into ("elements marked x are in undefined state")
Unspecified == 0

\* the elements carry distinct, identifiable values
InitialStorage == [p \in Positions |-> p + 1]

NoResult == 0 - 1

NoView == [allocated |-> FALSE, id |-> <<0, 0>>, data |-> <<>>]

---------------------------------------------------------------------------
(* Pure helpers of the function body *)

\* Kokkos::Experimental::distance(a, b) for random access iterators
distance(a, b) == b - a

\* lines 66-67: expect_valid_range(first, last); KOKKOS_EXPECTS(n >= 0)
ValidArgsNoSign(f, l, nn) == f <= l
ValidArgs(f, l, nn) == f <= l /\ nn >= 0

\* line 70: if (n == 0)
IsNoShiftNever(nn) == FALSE
IsNoShift(nn) == nn = 0

\* line 74: if (n >= distance(first, last))
ShiftsOutStrict(f, l, nn) == nn > distance(f, l)
ShiftsOut(f, l, nn) == nn >= distance(f, l)

\* lines 105-106: distance(first, last - n)
NumElementsToMoveWhole(f, l, nn) == distance(f, l)
NumElementsToMove(f, l, nn) == distance(f, l - nn)

\* line 121: step1_func_type(first, begin(tmp_view)): item i reads first + i
Step1Source(f, i) == f + i

\* line 128: step2_func_type(begin(tmp_view), first + n): item i writes
\* first + n + i
Step2DestOffByOne(f, nn, i) == f + nn + i + 1
Step2DestSame(f, nn, i) == f + nn
Step2DestNoShift(f, nn, i) == f + i
Step2Dest(f, nn, i) == f + nn + i

\* the locations a work item accesses.  Item i of step 1 reads first[i] and
\* writes tmp_view(i); being moved from, first[i] may be modified as well.
\* Item i of step 2 reads tmp_view(i), which it moves from, and writes
\* (first + n)[i].
Step1Reads(f, i) == {<<"storage", Step1Source(f, i)>>}
Step1Writes(f, i) == {<<"tmp_view", i>>, <<"storage", Step1Source(f, i)>>}
Step2Reads(i) == {<<"tmp_view", i>>}
Step2Writes(f, nn, i) == {<<"storage", Step2Dest(f, nn, i)>>, <<"tmp_view", i>>}

\* line 132: return first + n
GeneralResultFirst(f, nn) == f
GeneralResult(f, nn) == f + nn

\* line 127: tmp_view.extent(0)
Extent(v) == IF v.allocated THEN Len(v.data) ELSE 0

\* line 111: tmp_view_type tmp_view("shift_right_impl", num_elements_to_move)
NewTmpView(ident, len) ==
    [allocated |-> TRUE,
     id |-> ident,
     data |-> [j \in 1..(IF len > 0 THEN len ELSE 0) |-> Unspecified]]

\* line 133: tmp_view goes out of scope and its allocation is released
HeapLeak(h, v) == h
HeapAfterDestroy(h, v) == h \ {v.id}

\* the order of the statements of the function body, lines 64-132
StepOrderNoFence ==
    <<"validate", "trivial", "alloc", "step1", "step2", "return">>
StepOrderAllocLate ==
    <<"validate", "trivial", "step1", "alloc", "step2", "fence", "return">>
StepOrderAllocFirst ==
    <<"validate", "alloc", "trivial", "step1", "step2", "fence", "return">>
StepOrder ==
    <<"validate", "trivial", "alloc", "step1", "step2", "fence", "return">>

After(p) ==
    LET j == CHOOSE x \in 1..Len(StepOrder) : StepOrder[x] = p
    IN  StepOrder[j + 1]

\* element access; an access outside the storage or the view yields nothing
\* usable and stores nothing
ReadStorage(s, p) == IF p \in DOMAIN s THEN s[p] ELSE Unspecified
WriteStorage(s, p, v) == IF p \in DOMAIN s THEN [s EXCEPT ![p] = v] ELSE s
ReadView(v, i) ==
    IF v.allocated /\ (i + 1) \in DOMAIN v.data THEN v.data[i + 1]
    ELSE Unspecified
WriteView(v, i, x) ==
    IF v.allocated /\ (i + 1) \in DOMAIN v.data
    THEN [v EXCEPT !.data[i + 1] = x]
    ELSE v

---------------------------------------------------------------------------
(* Initial state: the call has been entered, nothing has run *)

Init ==
    /\ storage = InitialStorage
    /\ orig = InitialStorage
    /\ first \in 0..StorageLen
    /\ last \in 0..StorageLen
    /\ n \in ShiftAmounts
    /\ sequenced \in BOOLEAN
    /\ pc = "validate"
    /\ num_elements_to_move = 0
    /\ tmp_view = NoView
    /\ pend1 = {}
    /\ done1 = {}
    /\ pend2 = {}
    /\ done2 = {}
    /\ launches = 0
    /\ fences = 0
    /\ allocs = 0
    /\ written = {}
    /\ result = NoResult
    /\ calls = 1
    /\ heap = {}

---------------------------------------------------------------------------
(* The calling thread *)

\* lines 64-67, the checks pass
ValidateOk ==
    /\ pc = "validate"
    /\ ValidArgs(first, last, n)
    /\ pc' = After("validate")
    /\ UNCHANGED <<storage, orig, first, last, n, sequenced,
                   num_elements_to_move, tmp_view, pend1, done1, pend2,
                   done2, launches, fences, allocs, written, result,
                   calls, heap>>

\* lines 64-67, a check fails: the call does not proceed
ValidateFail ==
    /\ pc = "validate"
    /\ ~ValidArgs(first, last, n)
    /\ pc' = "aborted"
    /\ UNCHANGED <<storage, orig, first, last, n, sequenced,
                   num_elements_to_move, tmp_view, pend1, done1, pend2,
                   done2, launches, fences, allocs, written, result,
                   calls, heap>>

\* lines 70-72
ReturnFirst ==
    /\ pc = "trivial"
    /\ IsNoShift(n)
    /\ result' = first
    /\ pc' = "returned"
    /\ UNCHANGED <<storage, orig, first, last, n, sequenced,
                   num_elements_to_move, tmp_view, pend1, done1, pend2,
                   done2, launches, fences, allocs, written,
                   calls, heap>>

\* lines 74-76
ReturnLast ==
    /\ pc = "trivial"
    /\ ~IsNoShift(n)
    /\ ShiftsOut(first, last, n)
    /\ result' = last
    /\ pc' = "returned"
    /\ UNCHANGED <<storage, orig, first, last, n, sequenced,
                   num_elements_to_move, tmp_view, pend1, done1, pend2,
                   done2, launches, fences, allocs, written,
                   calls, heap>>

\* lines 70-106, neither trivial case applies
EnterGeneral ==
    /\ pc = "trivial"
    /\ ~IsNoShift(n)
    /\ ~ShiftsOut(first, last, n)
    /\ num_elements_to_move' = NumElementsToMove(first, last, n)
    /\ pc' = After("trivial")
    /\ UNCHANGED <<storage, orig, first, last, n, sequenced, tmp_view,
                   pend1, done1, pend2, done2, launches, fences, allocs,
                   written, result,
                   calls, heap>>

\* line 111, the view is allocated
CreateTmpView ==
    /\ pc = "alloc"
    /\ tmp_view' = NewTmpView(<<calls, allocs + 1>>, num_elements_to_move)
    /\ heap' = heap \cup {<<calls, allocs + 1>>}
    /\ allocs' = allocs + 1
    /\ pc' = After("alloc")
    /\ UNCHANGED <<storage, orig, first, last, n, sequenced,
                   num_elements_to_move, pend1, done1, pend2, done2,
                   launches, fences, written, result, calls>>

\* line 111, the allocation fails and the constructor throws
CreateTmpViewFail ==
    /\ pc = "alloc"
    /\ pc' = "alloc_failed"
    /\ UNCHANGED <<storage, orig, first, last, n, sequenced,
                   num_elements_to_move, tmp_view, pend1, done1, pend2,
                   done2, launches, fences, allocs, written, result,
                   calls, heap>>

\* lines 119-121
LaunchStep1 ==
    /\ pc = "step1"
    /\ pend1' = 0..(num_elements_to_move - 1)
    /\ launches' = launches + 1
    /\ pc' = After("step1")
    /\ UNCHANGED <<storage, orig, first, last, n, sequenced,
                   num_elements_to_move, tmp_view, done1, pend2, done2,
                   fences, allocs, written, result,
                   calls, heap>>

\* lines 126-128
LaunchStep2 ==
    /\ pc = "step2"
    /\ pend2' = 0..(Extent(tmp_view) - 1)
    /\ launches' = launches + 1
    /\ pc' = After("step2")
    /\ UNCHANGED <<storage, orig, first, last, n, sequenced,
                   num_elements_to_move, tmp_view, pend1, done1, done2,
                   fences, allocs, written, result,
                   calls, heap>>

\* line 130: blocks until all work launched on ex has completed
Fence ==
    /\ pc = "fence"
    /\ pend1 = {}
    /\ pend2 = {}
    /\ fences' = fences + 1
    /\ pc' = After("fence")
    /\ UNCHANGED <<storage, orig, first, last, n, sequenced,
                   num_elements_to_move, tmp_view, pend1, done1, pend2,
                   done2, launches, allocs, written, result,
                   calls, heap>>

\* lines 132-133
Return ==
    /\ pc = "return"
    /\ result' = GeneralResult(first, n)
    /\ heap' = HeapAfterDestroy(heap, tmp_view)
    /\ tmp_view' = NoView
    /\ pc' = "returned"
    /\ UNCHANGED <<storage, orig, first, last, n, sequenced,
                   num_elements_to_move, pend1, done1, pend2, done2,
                   launches, fences, allocs, written, calls>>

\* the caller: once a call has returned, or has thrown the allocation
\* failure, the range of the next call is chosen on the storage as it is now
NewCall ==
    /\ pc \in {"returned", "alloc_failed"}
    /\ calls < MaxCalls
    /\ calls' = calls + 1
    /\ first' \in 0..StorageLen
    /\ last' \in 0..StorageLen
    /\ n' \in ShiftAmounts
    /\ orig' = storage
    /\ pc' = "validate"
    /\ num_elements_to_move' = 0
    /\ tmp_view' = NoView
    /\ pend1' = {}
    /\ done1' = {}
    /\ pend2' = {}
    /\ done2' = {}
    /\ launches' = 0
    /\ fences' = 0
    /\ allocs' = 0
    /\ written' = {}
    /\ result' = NoResult
    /\ UNCHANGED <<storage, sequenced, heap>>

---------------------------------------------------------------------------
(* The execution context *)

\* a moved-from element is left as it was or in an unspecified state
MovedFrom(v) == {v, Unspecified}

\* work item i of the step-1 launch: tmp_view(i) = std::move(first[i])
RunStep1Item(i) ==
    /\ i \in pend1
    /\ LET src == Step1Source(first, i)
           v   == ReadStorage(storage, src)
       IN  /\ tmp_view' = WriteView(tmp_view, i, v)
           /\ \E left \in MovedFrom(v) :
                  storage' = WriteStorage(storage, src, left)
    /\ pend1' = pend1 \ {i}
    /\ done1' = done1 \cup {i}
    /\ UNCHANGED <<orig, first, last, n, sequenced, pc,
                   num_elements_to_move, pend2, done2, launches, fences,
                   allocs, written, result,
                   calls, heap>>

\* work item i of the step-2 launch: (first + n)[i] = std::move(tmp_view(i)).
\* On a context that sequences its launches the item starts only when the
\* step-1 launch has completed.
RunStep2Item(i) ==
    /\ i \in pend2
    /\ sequenced => pend1 = {}
    /\ LET dst == Step2Dest(first, n, i)
           v   == ReadView(tmp_view, i)
       IN  /\ storage' = WriteStorage(storage, dst, v)
           /\ written' = written \cup {dst}
           /\ \E left \in MovedFrom(v) :
                  tmp_view' = WriteView(tmp_view, i, left)
    /\ pend2' = pend2 \ {i}
    /\ done2' = done2 \cup {i}
    /\ UNCHANGED <<orig, first, last, n, sequenced, pc,
                   num_elements_to_move, pend1, done1, launches, fences,
                   allocs, result,
                   calls, heap>>

Step1Work == \E i \in pend1 : RunStep1Item(i)
Step2Work == \E i \in pend2 : RunStep2Item(i)

---------------------------------------------------------------------------

Next ==
    \/ ValidateOk
    \/ ValidateFail
    \/ ReturnFirst
    \/ ReturnLast
    \/ EnterGeneral
    \/ CreateTmpView
    \/ CreateTmpViewFail
    \/ LaunchStep1
    \/ LaunchStep2
    \/ Fence
    \/ Return
    \/ NewCall
    \/ Step1Work
    \/ Step2Work

Spec == Init /\ [][Next]_vars

---------------------------------------------------------------------------
(* Properties *)

\* the case 0 < n < distance(first, last) of a call with valid arguments
InGeneralCase == first <= last /\ 0 < n /\ n < last - first

\* the number of elements that survive the shift in the general case
Survivors == last - first - n

CallEnded == pc \in {"returned", "aborted", "alloc_failed"}

C3_SynchronizedAtReturn ==
    (pc = "returned" /\ InGeneralCase) =>
        /\ pend1 = {}
        /\ pend2 = {}
        /\ done1 = 0..(Survivors - 1)
        /\ done2 = 0..(Survivors - 1)

C3_Witness ==
    /\ pc = "returned"
    /\ InGeneralCase
    /\ ~sequenced
    /\ Cardinality(done2) > 1

\* C4: result position.  A call that returns yields first when n = 0, last
\* when n >= distance(first, last), and first + n otherwise.
C4_ResultPosition ==
    pc = "returned" =>
        result = IF n = 0 THEN first
                 ELSE IF n >= last - first THEN last
                 ELSE first + n

C4_Witness ==
    /\ pc = "returned"
    /\ InGeneralCase
    /\ first > 0
    /\ result = first + n

\* C5: shift by zero is a no-op.  Throughout a call with n = 0, and when it
\* has returned, the storage holds what it held on entry; this includes
\* zero-length ranges.
C5_ZeroShiftNoop ==
    (n = 0 /\ first <= last) => storage = orig

C5_Witness ==
    /\ pc = "returned"
    /\ n = 0
    /\ first < last
    /\ result = first
    /\ storage = orig

\* C6: launch and barrier counts.  A call that has returned has issued two
\* launches and one fence in the general case, and no launch and no fence
\* when n = 0 or n >= distance(first, last).
C6_LaunchAndFenceCounts ==
    pc = "returned" =>
        IF InGeneralCase
        THEN launches = 2 /\ fences = 1
        ELSE launches = 0 /\ fences = 0

C6_Witness ==
    /\ pc = "returned"
    /\ InGeneralCase
    /\ launches = 2
    /\ fences = 1

\* C7: allocation failure leaves the range untouched.  When the call has
\* ended with the allocation failure, the storage holds what it held on
\* entry, and nothing has been launched or run.
C7_AllocFailureUntouched ==
    pc = "alloc_failed" =>
        /\ storage = orig
        /\ written = {}
        /\ launches = 0
        /\ pend1 = {} /\ done1 = {} /\ pend2 = {} /\ done2 = {}

C7_Witness ==
    /\ pc = "alloc_failed"
    /\ InGeneralCase
    /\ storage = orig

\* C8: a precondition violation stops the call.  With n < 0 or last before
\* first the call never gets past the checks: no view is allocated, no
\* launch and no fence is issued, and the storage is not modified.
C8_PreconditionStops ==
    (n < 0 \/ last < first) =>
        /\ pc \in {"validate", "aborted"}
        /\ allocs = 0
        /\ ~tmp_view.allocated
        /\ launches = 0
        /\ fences = 0
        /\ pend1 = {} /\ pend2 = {}
        /\ written = {}
        /\ storage = orig

C8_Witness ==
    /\ pc = "aborted"
    /\ n < 0
    /\ first < last
    /\ storage = orig

\* C9: frame of the call.  With valid arguments the work items assign only
\* to positions inside [first, last); every element of the storage outside
\* [first, last) is as it was on entry, and the storage has the positions
\* it had on entry.
C9_Frame ==
    (first <= last /\ n >= 0) =>
        /\ written \subseteq first..(last - 1)
        /\ \A p \in DOMAIN orig \ (first..(last - 1)) : storage[p] = orig[p]
        /\ DOMAIN storage = DOMAIN orig

C9_Witness ==
    /\ pc = "returned"
    /\ InGeneralCase
    /\ ~sequenced
    /\ Positions \ (first..(last - 1)) # {}
    /\ written = (first + n)..(last - 1)

Conflict(r1, w1, r2, w2) ==
    (w1 \cap (r2 \cup w2)) # {} \/ (w2 \cap (r1 \cup w1)) # {}

\* C12: no data race inside a phase.  No two distinct work items of the
\* step-1 launch, and no two distinct work items of the step-2 launch,
\* access the same location with one of them writing.  So the outcome of a
\* launch that runs alone does not depend on the order of its items: once
\* step 1 has completed and step 2 is not launched, tmp_view(i) holds the
\* element that was at first + i; and on a context that sequences its
\* launches, the element is at first + n + i when the call has returned.
C12_NoRaceInsidePhase ==
    /\ \A i, j \in pend1 \cup done1 :
           i # j => ~Conflict(Step1Reads(first, i), Step1Writes(first, i),
                              Step1Reads(first, j), Step1Writes(first, j))
    /\ \A i, j \in pend2 \cup done2 :
           i # j => ~Conflict(Step2Reads(i), Step2Writes(first, n, i),
                              Step2Reads(j), Step2Writes(first, n, j))
    /\ (InGeneralCase /\ launches = 1 /\ done1 # {} /\ pend1 = {}) =>
           \A i \in done1 : ReadView(tmp_view, i) = orig[first + i]
    /\ (InGeneralCase /\ sequenced /\ pc = "returned") =>
           \A i \in done2 : storage[first + n + i] = orig[first + i]

C12_Witness ==
    /\ pc = "returned"
    /\ InGeneralCase
    /\ Cardinality(done1) > 1
    /\ Cardinality(done2) > 1
    /\ sequenced
    /\ \A i \in done2 : storage[first + n + i] = orig[first + i]

\* C13: short-circuit before resource acquisition.  The call reaches the
\* construction of the scratch view, and anything after it, only with valid
\* arguments and 0 < n < distance(first, last); the length it requests is at
\* least 1; and a call with n = 0 or n >= distance(first, last), the
\* boundary n = distance(first, last) and zero-length ranges included,
\* never allocates a view.
C13_ShortCircuitBeforeAlloc ==
    /\ pc \in {"alloc", "step1", "step2", "fence", "return"} => InGeneralCase
    /\ pc = "alloc" => num_elements_to_move >= 1
    /\ allocs > 0 => InGeneralCase
    /\ tmp_view.allocated => Len(tmp_view.data) >= 1
    /\ (n = 0 \/ n >= last - first) => (allocs = 0 /\ ~tmp_view.allocated)

C13_Witness ==
    /\ pc = "returned"
    /\ first < last
    /\ n = last - first
    /\ result = last
    /\ allocs = 0
    /\ ~tmp_view.allocated

\* C14: scratch sizing.  Whenever the scratch view is allocated its length
\* is exactly k = distance(first, last) - n, with 1 <= k < distance(first,
\* last); and each of the two launches runs exactly the work items 0..k-1,
\* each of them once.
C14_ScratchSizing ==
    /\ tmp_view.allocated =>
           /\ Len(tmp_view.data) = Survivors
           /\ 1 <= Survivors
           /\ Survivors < last - first
    /\ launches >= 1 =>
           /\ pend1 \cup done1 = 0..(Survivors - 1)
           /\ pend1 \cap done1 = {}
    /\ launches = 2 =>
           /\ pend2 \cup done2 = 0..(Survivors - 1)
           /\ pend2 \cap done2 = {}

C14_Witness ==
    /\ pc = "fence"
    /\ tmp_view.allocated
    /\ Len(tmp_view.data) = Survivors
    /\ Survivors > 1
    /\ launches = 2
    /\ done1 = 0..(Survivors - 1)
    /\ done2 = 0..(Survivors - 1)

\* the positions of the range that the shift vacates
Vacated ==
    first..((IF first + n < last THEN first + n ELSE last) - 1)

\* C15 as stated: vacated positions are never written.  With valid
\* arguments no position p with first <= p < min(first + n, last) is
\* assigned to or modified by a work item.
C15_VacatedNeverWritten ==
    (first <= last /\ n >= 0) =>
        \A p \in Vacated : p \notin written /\ storage[p] = orig[p]

\* C15 as amended: vacated positions are never assigned to.  With valid
\* arguments no work item assigns an element to a vacated position, but a
\* step-1 work item i moves from first + i, which may leave a vacated
\* position first + i with i < k in a moved-from state; vacated positions
\* from first + k on are untouched.  A call with n >= distance(first, last)
\* touches no element at all, and in the general case the only positions
\* assigned to are first + n .. last - 1.
C15_VacatedNeverAssigned ==
    (first <= last /\ n >= 0) =>
        /\ \A p \in Vacated :
               /\ p \notin written
               /\ storage[p] \in {orig[p], Unspecified}
               /\ p >= first + Survivors => storage[p] = orig[p]
        /\ n >= last - first => (written = {} /\ storage = orig)
        /\ InGeneralCase => written \subseteq (first + n)..(last - 1)

C15_Witness ==
    /\ pc = "returned"
    /\ InGeneralCase
    /\ written = (first + n)..(last - 1)
    /\ storage[first] = Unspecified
    /\ orig[first] # Unspecified

====
